---------------------------- MODULE Spec2Model ----------------------------
(***************************************************************************)
(* Microsite content resolution of aci-export (crate ddb, microsites.rs).  *)
(*                                                                         *)
(* The module models                                                       *)
(*   - pages_for_club as a sequential process over a read-only store, one  *)
(*     step per awaited query;                                             *)
(*   - the pure conversions From<PageRow> for MicrositePage, the rendering *)
(*     loop of featured_pages_content and drupal_uri_to_path, each under a *)
(*     specification of its own that draws the input and applies it;       *)
(*   - extract_media_urls (the search of MEDIA_RE over an HTML string),    *)
(*     clubs_with_microsites (one query) and homepage_assets (three        *)
(*     queries in sequence), each under a specification of its own;        *)
(*   - a caller that calls pages_for_club twice on the same store.         *)
(*                                                                         *)
(* Rust Strings are TLA+ strings; Option<T> is a sequence of length at     *)
(* most one (None == <<>>, Some(v) == <<v>>).                              *)
(***************************************************************************)
EXTENDS Integers, Sequences, FiniteSets, TLC

VARIABLES
    store,          \* the Drupal tables the queries read (never written)
    homepage_nid,   \* argument of pages_for_club
    pc,             \* position of the call
    homepage_uuid,  \* Option<String>: result of the menu uuid lookup
    homepage,       \* Option<PageRow>: result of the homepage projection
    content_pages,  \* rows of the children query not yet iterated
    pages,          \* Vec<MicrositePage> under construction
    built,          \* per pushed page: the row, fused body and markup used
                    \* (homepage_assets: the locals assigned so far)
    result,         \* Option<Result<Vec<MicrositePage>>> returned
    queries,        \* the queries issued so far, in issue order
    arg,            \* input of a pure conversion
    ret             \* its output

vars == <<store, homepage_nid, pc, homepage_uuid, homepage, content_pages,
          pages, built, result, queries, arg, ret>>

callVars == <<store, homepage_nid, homepage_uuid, homepage, content_pages,
              pages, built, result, queries>>

-----------------------------------------------------------------------------
(* Option<T> *)

None == <<>>

Some(v) == <<v>>

IsSome(o) == Len(o) = 1

Unwrap(o) == o[1]

\* Option::unwrap_or / unwrap_or_else
UnwrapOr(o, d) == IF IsSome(o) THEN o[1] ELSE d

-----------------------------------------------------------------------------
(* str / String operations used by the code *)

\* str::starts_with
StartsWith(s, p) == Len(s) >= Len(p) /\ SubSeq(s, 1, Len(p)) = p

\* the text after the first n characters
Drop(s, n) == SubSeq(s, n + 1, Len(s))

\* str::strip_prefix
StripPrefix(s, p) == IF StartsWith(s, p) THEN Some(Drop(s, Len(p))) ELSE None

\* str::replace: every non-overlapping occurrence, left to right
RECURSIVE Replace(_, _, _)
Replace(s, from, to) ==
    IF Len(s) = 0 THEN ""
    ELSE IF StartsWith(s, from) THEN to \o Replace(Drop(s, Len(from)), from, to)
    ELSE Head(s) \o Replace(Tail(s), from, to)

\* [String]::join
RECURSIVE Join(_, _)
Join(parts, sep) ==
    IF Len(parts) = 0 THEN ""
    ELSE IF Len(parts) = 1 THEN parts[1]
    ELSE parts[1] \o sep \o Join(Tail(parts), sep)

-----------------------------------------------------------------------------
(* impl From<PageRow> for MicrositePage *)

\* faulty variant: the override is ignored
EffectiveTitleBaseOnly(row) == row.title

\* let title = row.page_title.unwrap_or(row.title);
EffectiveTitle(row) == UnwrapOr(row.page_title, row.title)

\* faulty variant: the body is pushed before the summary
BodyPartsBodyFirst(row) == row.body_value \o row.summary_value \o row.field_body_value

\* the three `if let Some(..) = .. { parts.push(..) }` in source order; an
\* Option is a sequence of length <= 1, so pushing it is concatenation
BodyParts(row) == row.summary_value \o row.body_value \o row.field_body_value

\* let body_html = parts.join("\n\n");
FusedBody(row) == Join(BodyParts(row), "\n\n")

FromPageRow(row) ==
    [nid         |-> row.nid,
     title       |-> EffectiveTitle(row),
     body_html   |-> FusedBody(row),
     status      |-> (row.status = 1),
     menu_id     |-> row.menu_id,
     menu_title  |-> row.menu_title,
     menu_weight |-> row.menu_weight,
     menu_parent |-> row.menu_parent,
     hero_image  |-> row.hero_image_uri,
     nav_image   |-> row.nav_image_uri]

-----------------------------------------------------------------------------
(* drupal_uri_to_path *)

\* faulty variant: the rewrite of featured_pages_content, which never fails
drupal_uri_to_path_replace(uri) ==
    Some(Replace(uri, "public://", "/sites/default/files/"))

drupal_uri_to_path(uri) ==
    LET stripped == StripPrefix(uri, "public://")
    IN  IF IsSome(stripped)
        THEN Some("/sites/default/files/" \o Unwrap(stripped))
        ELSE None

-----------------------------------------------------------------------------
(* featured_pages_content *)

\* The rows of the query for node nid. store.featured holds one record per
\* node__field_featured_pages reference, already LEFT JOINed with the
\* paragraph's headline, text, button and image file; ORDER BY fp.delta.
\* Drupal keys a field table by (entity_id, deleted, delta, langcode), so the
\* deltas of one node are distinct and the order is total.
RECURSIVE SortByDelta(_)
SortByDelta(rows) ==
    IF rows = {} THEN <<>>
    ELSE LET first == CHOOSE r \in rows : \A q \in rows : r.delta <= q.delta
         IN  <<first>> \o SortByDelta(rows \ {first})

FeaturedRows(st, nid) == SortByDelta({r \in st.featured : r.entity_id = nid})

\* if let Some(uri) = row.image_uri { ... }
RenderImage(image_uri) ==
    IF IsSome(image_uri)
    THEN LET src == Replace(Unwrap(image_uri), "public://", "/sites/default/files/")
         IN  "<p><img src=\"" \o src \o "\" alt=\"\"></p>\n"
    ELSE ""

\* if let Some(headline) = row.headline { ... }
RenderHeadline(headline) ==
    IF IsSome(headline) THEN "<h3>" \o Unwrap(headline) \o "</h3>\n" ELSE ""

\* if let Some(content) = row.summary_text_2 { ... }
RenderText(text) == IF IsSome(text) THEN Unwrap(text) \o "\n" ELSE ""

\* faulty variant: a missing title is not replaced by the URI
RenderButtonNoFallback(button_uri, button_title) ==
    IF IsSome(button_uri)
    THEN "<p><a href=\"" \o Unwrap(button_uri) \o "\">"
             \o UnwrapOr(button_title, "") \o "</a></p>\n"
    ELSE ""

\* if let Some(uri) = row.button_uri { ... }
RenderButton(button_uri, button_title) ==
    IF IsSome(button_uri)
    THEN LET uri   == Unwrap(button_uri)
             title == UnwrapOr(button_title, uri)
         IN  "<p><a href=\"" \o uri \o "\">" \o title \o "</a></p>\n"
    ELSE ""

\* one iteration of `for row in rows`
RenderRow(row) ==
    RenderImage(row.image_uri) \o RenderHeadline(row.headline)
        \o RenderText(row.summary_text_2)
        \o RenderButton(row.button_uri, row.button_title)

\* the loop over the rows; an empty row list returns String::new() early,
\* which is also what the loop yields
RECURSIVE RenderRows(_)
RenderRows(rows) ==
    IF Len(rows) = 0 THEN ""
    ELSE RenderRow(rows[1]) \o RenderRows(Tail(rows))

featured_pages_content(st, nid) == RenderRows(FeaturedRows(st, nid))

-----------------------------------------------------------------------------
(* The store: the tables the queries of pages_for_club read.               *)
(*   nodes      node_field_data             [nid, title, status]           *)
(*   links      menu_link_content JOIN menu_link_content_data ON id        *)
(*              [id, uuid, link_uri, menu_name, parent, enabled, weight,   *)
(*               title]                                                    *)
(*   page_title node__field_page_title      [entity_id, deleted, delta,    *)
(*   body       node__body                    value]                       *)
(*   summary    node__field_summary                                        *)
(*   field_body node__field_body                                           *)
(*   featured   node__field_featured_pages with its paragraph joins        *)
(* The hero and navigation image joins find no row in the stores below, so *)
(* hero_image_uri and nav_image_uri are NULL.                              *)

\* CONCAT('entity:node/', ?)
NodeUri(nid) == "entity:node/" \o ToString(nid)

\* format!("menu_link_content:{uuid}")
ParentRef(uuid) == "menu_link_content:" \o uuid

\* LEFT JOIN: the matching rows, or one NULL row when there is none
LeftJoin(rows) == IF rows = {} THEN {None} ELSE {Some(r) : r \in rows}

FieldRows(table, nid) == {r \in table : r.entity_id = nid}

\* the value column of a LEFT JOINed field row
ValueOf(o) == IF IsSome(o) THEN Some(Unwrap(o).value) ELSE None

\* One row of the projection: node n, its LEFT JOINed field rows and menu
\* link (each an Option holding the joined row) as the selected columns.
ProjectRow(j) ==
    [nid              |-> j.n.nid,
     title            |-> j.n.title,
     page_title       |-> ValueOf(j.pt),
     body_value       |-> ValueOf(j.b),
     summary_value    |-> ValueOf(j.s),
     field_body_value |-> ValueOf(j.fb),
     status           |-> j.n.status,
     menu_id          |-> IF IsSome(j.mld) THEN Some(Unwrap(j.mld).id) ELSE None,
     menu_title       |-> IF IsSome(j.mld) THEN Some(Unwrap(j.mld).title) ELSE None,
     menu_weight      |-> IF IsSome(j.mld) THEN Some(Unwrap(j.mld).weight) ELSE None,
     menu_parent      |-> IF IsSome(j.mld) THEN Some(Unwrap(j.mld).parent) ELSE None,
     hero_image_uri   |-> None,
     nav_image_uri    |-> None]

\* the field LEFT JOINs shared by the homepage and the children query
FieldJoins(st, n, mlds) ==
    {[n |-> n, pt |-> pt, b |-> b, s |-> s, fb |-> fb, mld |-> mld] :
        pt  \in LeftJoin(FieldRows(st.page_title, n.nid)),
        b   \in LeftJoin(FieldRows(st.body, n.nid)),
        s   \in LeftJoin(FieldRows(st.summary, n.nid)),
        fb  \in LeftJoin(FieldRows(st.field_body, n.nid)),
        mld \in mlds}

\* faulty variant: the menu name is not compared
MenuUuidsAnyMenu(st, nid) ==
    {l.uuid : l \in {k \in st.links : k.link_uri = NodeUri(nid)}}

\* SELECT CAST(mlc.uuid AS CHAR(36)) ... WHERE mld.link__uri = CONCAT(..)
\* AND mld.menu_name = 'microsites': the uuids the lookup can return
MenuUuids(st, nid) ==
    {l.uuid : l \in {k \in st.links :
                        k.link_uri = NodeUri(nid) /\ k.menu_name = "microsites"}}

\* the homepage projection: FROM node_field_data n LEFT JOIN ... WHERE n.nid = ?
HomepageJoin(st, nid) ==
    UNION {FieldJoins(st, n,
               LeftJoin({l \in st.links : l.link_uri = NodeUri(n.nid)
                                           /\ l.menu_name = "microsites"})) :
           n \in {m \in st.nodes : m.nid = nid}}

\* faulty variant: disabled links are kept
ChildLinksAnyState(st, parent_ref) ==
    {l \in st.links : l.menu_name = "microsites" /\ l.parent = parent_ref}

\* WHERE mld.menu_name = 'microsites' AND mld.parent = ? AND mld.enabled = 1
ChildLinks(st, parent_ref) ==
    {l \in st.links : l.menu_name = "microsites" /\ l.parent = parent_ref
                      /\ l.enabled = 1}

\* FROM menu_link_content_data mld JOIN node_field_data n ON mld.link__uri =
\* CONCAT('entity:node/', n.nid) LEFT JOIN ...
ChildrenJoin(st, parent_ref) ==
    UNION {FieldJoins(st, n, {Some(l)}) :
           <<l, n>> \in {ln \in ChildLinks(st, parent_ref) \X st.nodes :
                             ln[1].link_uri = NodeUri(ln[2].nid)}}

-----------------------------------------------------------------------------
(* ORDER BY mld.weight, n.title *)

\* The characters of the titles in ascending order. The titles of the model
\* differ in case only where they differ in letter, so the binary and the
\* case-insensitive collations of MySQL order them alike.
Alphabet == " ABCDEFGHIJKLMNOPQRSTUVWXYZabcdefghijklmnopqrstuvwxyz"

Rank(c) == CHOOSE i \in 1..Len(Alphabet) : SubSeq(Alphabet, i, i) = c

RECURSIVE StrLess(_, _)
StrLess(a, b) ==
    IF Len(b) = 0 THEN FALSE
    ELSE IF Len(a) = 0 THEN TRUE
    ELSE IF Head(a) = Head(b) THEN StrLess(Tail(a), Tail(b))
    ELSE Rank(Head(a)) < Rank(Head(b))

\* faulty variant: ORDER BY n.title, mld.weight
RowLeqTitleFirst(x, y) ==
    \/ StrLess(x.n.title, y.n.title)
    \/ x.n.title = y.n.title /\ Unwrap(x.mld).weight <= Unwrap(y.mld).weight

\* x sorts no later than y
RowLeq(x, y) ==
    \/ Unwrap(x.mld).weight < Unwrap(y.mld).weight
    \/ Unwrap(x.mld).weight = Unwrap(y.mld).weight /\ ~StrLess(y.n.title, x.n.title)

\* Every order the sort may return: rows that tie in both keys come in any
\* order, as SQL leaves it open.
RECURSIVE SortedSeqs(_)
SortedSeqs(rows) ==
    IF rows = {} THEN {<<>>}
    ELSE UNION {{<<x>> \o rest : rest \in SortedSeqs(rows \ {x})} :
                x \in {y \in rows : \A z \in rows : RowLeq(y, z)}}

\* the children query: the join rows, ordered, as PageRows
ChildrenResults(st, parent_ref) ==
    {[i \in 1..Len(js) |-> ProjectRow(js[i])] :
        js \in SortedSeqs(ChildrenJoin(st, parent_ref))}

-----------------------------------------------------------------------------
(* pages_for_club *)

\* faulty variant: the markup is appended without the blank line
AppendFeaturedNoSeparator(body_html, featured) == body_html \o featured

\* if !featured.is_empty() { if page.body_html.is_empty() { .. } else { .. } }
\* for the homepage (lines 323-330) and for a child page (lines 384-391)
AppendFeaturedHome(body_html, featured) ==
    IF featured # ""
    THEN IF body_html = "" THEN featured ELSE body_html \o "\n\n" \o featured
    ELSE body_html

AppendFeaturedChild(body_html, featured) ==
    IF featured # ""
    THEN IF body_html = "" THEN featured ELSE body_html \o "\n\n" \o featured
    ELSE body_html

Ok(v) == [ok |-> TRUE, pages |-> v]

Err == [ok |-> FALSE]

Issue(q, param) == queries' = Append(queries, [q |-> q, param |-> param])

\* First query: the homepage's menu uuid; LIMIT 1 without ORDER BY returns
\* any one matching row.
QueryMenuUuid ==
    /\ pc = "menu_uuid"
    /\ Issue("menu_uuid", homepage_nid)
    /\ \/ /\ MenuUuids(store, homepage_nid) = {}
          /\ homepage_uuid' = None
       \/ \E u \in MenuUuids(store, homepage_nid) : homepage_uuid' = Some(u)
    /\ pc' = "homepage"
    /\ UNCHANGED <<store, homepage_nid, homepage, content_pages, pages, built,
                   result, arg, ret>>

\* Second query: the homepage projection; fetch_optional keeps the first row
\* of the result, whichever the store returns first.
QueryHomepage ==
    /\ pc = "homepage"
    /\ Issue("homepage", homepage_nid)
    /\ \/ /\ HomepageJoin(store, homepage_nid) = {}
          /\ homepage' = None
          /\ pc' = "children"
       \/ /\ \E j \in HomepageJoin(store, homepage_nid) :
                 homepage' = Some(ProjectRow(j))
          /\ pc' = "hp_featured"
    /\ UNCHANGED <<store, homepage_nid, homepage_uuid, content_pages, pages,
                   built, result, arg, ret>>

\* if let Some(hp) = homepage { ... pages.push(page); }
FeaturedHomepage ==
    /\ pc = "hp_featured"
    /\ LET row      == Unwrap(homepage)
           page     == FromPageRow(row)
           featured == featured_pages_content(store, page.nid)
           body     == AppendFeaturedHome(page.body_html, featured)
       IN  /\ Issue("featured", page.nid)
           /\ pages' = Append(pages, [page EXCEPT !.body_html = body])
           /\ built' = Append(built, [row |-> row, fused |-> page.body_html,
                                      featured |-> featured, home |-> TRUE])
    /\ pc' = "children"
    /\ UNCHANGED <<store, homepage_nid, homepage_uuid, homepage, content_pages,
                   result, arg, ret>>

\* if let Some(uuid) = homepage_uuid { ... fetch_all ... }
QueryChildren ==
    /\ pc = "children"
    /\ IsSome(homepage_uuid)
    /\ LET parent_ref == ParentRef(Unwrap(homepage_uuid))
       IN  /\ Issue("children", parent_ref)
           /\ content_pages' \in ChildrenResults(store, parent_ref)
    /\ pc' = "loop"
    /\ UNCHANGED <<store, homepage_nid, homepage_uuid, homepage, pages, built,
                   result, arg, ret>>

\* faulty variant: the loop takes the rows from the end of the list
FeaturedChildLastFirst ==
    /\ pc = "loop"
    /\ Len(content_pages) > 0
    /\ LET row      == content_pages[Len(content_pages)]
           page     == FromPageRow(row)
           featured == featured_pages_content(store, page.nid)
           body     == AppendFeaturedChild(page.body_html, featured)
       IN  /\ Issue("featured", page.nid)
           /\ pages' = Append(pages, [page EXCEPT !.body_html = body])
           /\ built' = Append(built, [row |-> row, fused |-> page.body_html,
                                      featured |-> featured, home |-> FALSE])
    /\ content_pages' = SubSeq(content_pages, 1, Len(content_pages) - 1)
    /\ UNCHANGED <<store, homepage_nid, pc, homepage_uuid, homepage, result,
                   arg, ret>>

\* one iteration of `for row in content_pages`
FeaturedChild ==
    /\ pc = "loop"
    /\ Len(content_pages) > 0
    /\ LET row      == Head(content_pages)
           page     == FromPageRow(row)
           featured == featured_pages_content(store, page.nid)
           body     == AppendFeaturedChild(page.body_html, featured)
       IN  /\ Issue("featured", page.nid)
           /\ pages' = Append(pages, [page EXCEPT !.body_html = body])
           /\ built' = Append(built, [row |-> row, fused |-> page.body_html,
                                      featured |-> featured, home |-> FALSE])
    /\ content_pages' = Tail(content_pages)
    /\ UNCHANGED <<store, homepage_nid, pc, homepage_uuid, homepage, result,
                   arg, ret>>

\* Ok(pages): without a menu uuid the children block is skipped, otherwise
\* the loop has run out of rows
ReturnOk ==
    /\ \/ pc = "children" /\ ~IsSome(homepage_uuid)
       \/ pc = "loop" /\ Len(content_pages) = 0
    /\ result' = Some(Ok(pages))
    /\ pc' = "done"
    /\ UNCHANGED <<store, homepage_nid, homepage_uuid, homepage, content_pages,
                   pages, built, queries, arg, ret>>

\* faulty variant: a failed query is swallowed and the pages built so far are
\* returned
QueryFailsPartial ==
    /\ \/ pc = "menu_uuid" /\ Issue("menu_uuid", homepage_nid)
       \/ pc = "homepage" /\ Issue("homepage", homepage_nid)
       \/ pc = "hp_featured" /\ Issue("featured", Unwrap(homepage).nid)
       \/ /\ pc = "children"
          /\ IsSome(homepage_uuid)
          /\ Issue("children", ParentRef(Unwrap(homepage_uuid)))
       \/ /\ pc = "loop"
          /\ Len(content_pages) > 0
          /\ Issue("featured", Head(content_pages).nid)
    /\ result' = Some(Ok(pages))
    /\ pc' = "done"
    /\ UNCHANGED <<store, homepage_nid, homepage_uuid, homepage, content_pages,
                   pages, built, arg, ret>>

\* `.await?`: the query about to be issued fails and the call returns the
\* error; the pages built so far are dropped with the call's frame.
QueryFails ==
    /\ \/ pc = "menu_uuid" /\ Issue("menu_uuid", homepage_nid)
       \/ pc = "homepage" /\ Issue("homepage", homepage_nid)
       \/ pc = "hp_featured" /\ Issue("featured", Unwrap(homepage).nid)
       \/ /\ pc = "children"
          /\ IsSome(homepage_uuid)
          /\ Issue("children", ParentRef(Unwrap(homepage_uuid)))
       \/ /\ pc = "loop"
          /\ Len(content_pages) > 0
          /\ Issue("featured", Head(content_pages).nid)
    /\ result' = Some(Err)
    /\ pc' = "done"
    /\ UNCHANGED <<store, homepage_nid, homepage_uuid, homepage, content_pages,
                   pages, built, arg, ret>>

Next ==
    \/ QueryMenuUuid
    \/ QueryHomepage
    \/ FeaturedHomepage
    \/ QueryChildren
    \/ FeaturedChild
    \/ ReturnOk
    \/ QueryFails

-----------------------------------------------------------------------------
(* Stores *)

\* largest menu weight of a link
MaxWeight == 1

\* most field rows (page title, body, summary, custom body, featured
\* reference) of a store of SpecRows
MaxFieldRows == 3

\* most featured-page references of the node rendered under SpecRender
MaxFragments == 2

\* most path segments after the scheme of a URI under SpecUri
MaxSegments == 2

EmptyStore ==
    [nodes |-> {}, links |-> {}, page_title |-> {}, body |-> {},
     summary |-> {}, field_body |-> {}, featured |-> {}]

Node(nid, title) == [nid |-> nid, title |-> title, status |-> 1]

Uuid(id) == "uuid-" \o ToString(id)

Link(id, uri, menu, parent, enabled, weight) ==
    [id |-> id, uuid |-> Uuid(id), link_uri |-> uri, menu_name |-> menu,
     parent |-> parent, enabled |-> enabled, weight |-> weight,
     title |-> "Menu " \o ToString(id)]

FieldRow(nid, deleted, delta, value) ==
    [entity_id |-> nid, deleted |-> deleted, delta |-> delta, value |-> value]

Fragment(nid, delta, headline, text, button_uri, button_title, image_uri) ==
    [entity_id |-> nid, delta |-> delta, headline |-> headline,
     summary_text_2 |-> text, button_uri |-> button_uri,
     button_title |-> button_title, image_uri |-> image_uri]

HeadlineOnly(nid, delta) ==
    Fragment(nid, delta, Some("Welcome"), None, None, None, None)

Menus == {"microsites", "main"}

Parents == {"", ParentRef(Uuid(1)), ParentRef(Uuid(2))}

Targets == {NodeUri(100), NodeUri(200), NodeUri(300), "internal:/contact"}

\* Stores of Spec: the homepage 100 (present or not), the nodes 200 and 300,
\* and three menu links. Link 1 points at the homepage from the root of
\* either menu; link 2 is any link; link 3 is any enabled link of the
\* 'microsites' menu. The field rows are fixed.
MenuStores ==
    {[nodes      |-> hp \cup {Node(200, "About"), Node(300, "Contact")},
      links      |-> {l1, l2, l3},
      page_title |-> {FieldRow(200, 0, 0, "Our story")},
      body       |-> {FieldRow(100, 0, 0, "<p>Home</p>"),
                      FieldRow(200, 0, 0, "<p>About us</p>")},
      summary    |-> {},
      field_body |-> {},
      featured   |-> {HeadlineOnly(200, 0)}] :
        hp \in {{}, {Node(100, "Club")}},
        l1 \in {Link(1, NodeUri(100), m, "", e, 0) : m \in Menus, e \in {0, 1}},
        l2 \in {Link(2, t, m, p, e, w) :
                   t \in Targets, m \in Menus, p \in Parents, e \in {0, 1},
                   w \in 0..MaxWeight},
        l3 \in {Link(3, t, "microsites", p, 1, w) :
                   t \in Targets, p \in Parents, w \in 0..MaxWeight}}

\* The field rows a store of SpecRows draws from, each tagged with its table.
RowUniverse ==
    UNION {
        {[table |-> "page_title", row |-> FieldRow(e, 0, 0, "Welcome")],
         [table |-> "page_title", row |-> FieldRow(e, 0, 1, "Hello")],
         [table |-> "page_title", row |-> FieldRow(e, 1, 0, "Old title")],
         [table |-> "body", row |-> FieldRow(e, 0, 0, "<p>Body</p>")],
         [table |-> "body", row |-> FieldRow(e, 0, 1, "<p>More</p>")],
         [table |-> "body", row |-> FieldRow(e, 1, 0, "<p>Gone</p>")],
         [table |-> "summary", row |-> FieldRow(e, 0, 0, "Summary")],
         [table |-> "field_body", row |-> FieldRow(e, 0, 0, "<p>Extra</p>")],
         [table |-> "featured", row |-> HeadlineOnly(e, 0)]} : e \in {100, 200}}

Table(rows, name) == {t.row : t \in {u \in rows : u.table = name}}

\* Stores of SpecRows: the homepage 100 (present or not) with its link in
\* either menu, one child page 200, and at most MaxFieldRows field rows.
RowStores ==
    {[nodes      |-> hp \cup {Node(200, "About")},
      links      |-> {Link(1, NodeUri(100), m, "", 1, 0),
                      Link(2, NodeUri(200), "microsites", ParentRef(Uuid(1)), 1, 0)},
      page_title |-> Table(rows, "page_title"),
      body       |-> Table(rows, "body"),
      summary    |-> Table(rows, "summary"),
      field_body |-> Table(rows, "field_body"),
      featured   |-> Table(rows, "featured")] :
        hp \in {{}, {Node(100, "Club")}},
        m \in Menus,
        rows \in {r \in SUBSET RowUniverse : Cardinality(r) <= MaxFieldRows}}

InitCall(stores) ==
    /\ store \in stores
    /\ homepage_nid = 100
    /\ pc = "menu_uuid"
    /\ homepage_uuid = None
    /\ homepage = None
    /\ content_pages = <<>>
    /\ pages = <<>>
    /\ built = <<>>
    /\ result = None
    /\ queries = <<>>
    /\ arg = None
    /\ ret = None

Init == InitCall(MenuStores)

Spec == Init /\ [][Next]_vars

InitRows == InitCall(RowStores)

SpecRows == InitRows /\ [][Next]_vars

-----------------------------------------------------------------------------
(* The pure conversions, each applied once to an input drawn by Init *)

InitPure(at, stores, args) ==
    /\ store \in stores
    /\ homepage_nid = 0
    /\ pc = at
    /\ homepage_uuid = None
    /\ homepage = None
    /\ content_pages = <<>>
    /\ pages = <<>>
    /\ built = <<>>
    /\ result = None
    /\ queries = <<>>
    /\ arg \in args
    /\ ret = None

\* PageRows: every presence combination of the title override and of the
\* three body fragments, a present value being empty or not.
PageRowInputs ==
    {[nid              |-> 200,
      title            |-> "About",
      page_title       |-> pt,
      body_value       |-> b,
      summary_value    |-> sm,
      field_body_value |-> fb,
      status           |-> st,
      menu_id          |-> None,
      menu_title       |-> None,
      menu_weight      |-> None,
      menu_parent      |-> None,
      hero_image_uri   |-> None,
      nav_image_uri    |-> None] :
        pt \in {None, Some(""), Some("Welcome")},
        b  \in {None, Some(""), Some("B")},
        sm \in {None, Some(""), Some("S")},
        fb \in {None, Some(""), Some("E")},
        st \in {0, 1}}

\* row.into()
ApplyFrom ==
    /\ pc = "from_call"
    /\ ret' = FromPageRow(arg)
    /\ pc' = "from_done"
    /\ UNCHANGED <<callVars, arg>>

InitFuse == InitPure("from_call", {EmptyStore}, PageRowInputs)

NextFuse == ApplyFrom

SpecFuse == InitFuse /\ [][NextFuse]_vars

\* What one featured-page reference can join to: each of headline, text and
\* image present or not (the image in the public or in another scheme), and
\* the button row absent, with a URI only, with URI and title, or with a
\* title only.
FragmentContents ==
    {[headline |-> h, summary_text_2 |-> t, button_uri |-> bu,
      button_title |-> bt, image_uri |-> img] :
        h   \in {None, Some("Welcome")},
        t   \in {None, Some("<p>Text</p>")},
        bu  \in {None, Some("https://example.com/join")},
        bt  \in {None, Some("Join")},
        img \in {None, Some("public://logo.png"), Some("private://secret.png")}}

\* Stores of SpecRender: node 200 with 0..MaxFragments references, deltas
\* 0, 1, ..., and one reference of another node.
RenderStores ==
    {[EmptyStore EXCEPT !.featured =
          {Fragment(200, d, f[d].headline, f[d].summary_text_2, f[d].button_uri,
                    f[d].button_title, f[d].image_uri) : d \in DOMAIN f}
          \cup {Fragment(100, 0, Some("Other"), None, None, None, None)}] :
        f \in UNION {[0..(n - 1) -> FragmentContents] : n \in 0..MaxFragments}}

\* featured_pages_content(pool, nid), the query succeeding
ApplyFeatured ==
    /\ pc = "render_call"
    /\ Issue("featured", arg)
    /\ ret' = [ok |-> TRUE, html |-> featured_pages_content(store, arg)]
    /\ pc' = "render_done"
    /\ UNCHANGED <<store, homepage_nid, homepage_uuid, homepage, content_pages,
                   pages, built, result, arg>>

\* `.fetch_all(pool).await?` failing
ApplyFeaturedFails ==
    /\ pc = "render_call"
    /\ Issue("featured", arg)
    /\ ret' = Err
    /\ pc' = "render_done"
    /\ UNCHANGED <<store, homepage_nid, homepage_uuid, homepage, content_pages,
                   pages, built, result, arg>>

InitRender == InitPure("render_call", RenderStores, {200})

NextRender == ApplyFeatured \/ ApplyFeaturedFails

SpecRender == InitRender /\ [][NextRender]_vars

\* URIs: a scheme-like prefix followed by up to MaxSegments path segments.
UriPrefixes == {"public://", "private://", "", "public:/", "/public://", "PUBLIC://"}

UriSegments == {"2025-06", "IMG_4377.jpeg", "public:/"}

UriPaths ==
    {Join(p, "/") : p \in UNION {[1..n -> UriSegments] : n \in 0..MaxSegments}}

UriInputs == {pre \o path : pre \in UriPrefixes, path \in UriPaths}

ApplyUri ==
    /\ pc = "uri_call"
    /\ ret' = drupal_uri_to_path(arg)
    /\ pc' = "uri_done"
    /\ UNCHANGED <<callVars, arg>>

InitUri == InitPure("uri_call", {EmptyStore}, UriInputs)

NextUri == ApplyUri

SpecUri == InitUri /\ [][NextUri]_vars

-----------------------------------------------------------------------------
(* Claims about the menu walk of pages_for_club, checked under Spec *)

\* the call has returned Ok(pages)
ReturnedOk == pc = "done" /\ IsSome(result) /\ Unwrap(result).ok

Returned == Unwrap(result).pages

\* the store holds a node_field_data row for nid
NodeExists(nid) == \E n \in store.nodes : n.nid = nid

BaseTitle(nid) == (CHOOSE n \in store.nodes : n.nid = nid).title

\* the homepage has a link in the 'microsites' menu
HasMicrositesLink ==
    \E l \in store.links :
        l.link_uri = "entity:node/100" /\ l.menu_name = "microsites"

\* the links that make a page a child of the homepage link with this uuid
QualifyingLinks(uuid) ==
    {l \in store.links :
        /\ l.menu_name = "microsites"
        /\ l.enabled = 1
        /\ l.parent = "menu_link_content:" \o uuid}

\* the node a link points at, if the link points at an existing node
TargetNids(l) == {n.nid : n \in {m \in store.nodes :
                                    l.link_uri = "entity:node/" \o ToString(m.nid)}}

\* the order of the titles of the model's nodes
TitleRank(t) == CASE t = "About" -> 1 [] t = "Club" -> 2 [] t = "Contact" -> 3

\* C1: when the homepage's entity row exists and the homepage has a link in
\* the 'microsites' menu, the returned list is the homepage page followed by
\* one page per enabled child link (of the homepage link the lookup
\* returned) pointing at an existing node, ordered by menu weight ascending
\* and, among equal weights, by node title ascending.
C1_HomepageThenChildrenByWeightTitle ==
    (ReturnedOk /\ NodeExists(100) /\ HasMicrositesLink) =>
        LET ps       == Returned
            children == {<<l, nid>> \in QualifyingLinks(Unwrap(homepage_uuid)) \X {100, 200, 300} :
                            nid \in TargetNids(l)}
        IN  /\ IsSome(homepage_uuid)
            /\ Len(ps) = 1 + Cardinality(children)
            /\ ps[1].nid = 100
            /\ \A c \in children :
                   \E i \in 2..Len(ps) :
                       ps[i].menu_id = Some(c[1].id) /\ ps[i].nid = c[2]
            /\ \A i, j \in 2..Len(ps) :
                   i < j =>
                       \/ Unwrap(ps[i].menu_weight) < Unwrap(ps[j].menu_weight)
                       \/ /\ Unwrap(ps[i].menu_weight) = Unwrap(ps[j].menu_weight)
                          /\ TitleRank(BaseTitle(ps[i].nid))
                                 <= TitleRank(BaseTitle(ps[j].nid))

\* C1 witness: homepage 100 with children 200 (weight 1, 'About', stored
\* first) and 300 (weight 0, 'Contact') returns [100, 300, 200].
C1_Witness ==
    /\ ReturnedOk
    /\ \E l2, l3 \in store.links :
           /\ l2.id = 2 /\ l2.link_uri = "entity:node/200" /\ l2.weight = 1
           /\ l3.id = 3 /\ l3.link_uri = "entity:node/300" /\ l3.weight = 0
    /\ Len(Returned) = 3
    /\ Returned[1].nid = 100
    /\ Returned[2].nid = 300
    /\ Returned[3].nid = 200

\* C2: when the homepage (its entity row existing) has no link in the
\* 'microsites' menu, the children query is never issued and the call, when
\* it returns Ok, returns exactly one page, the homepage.
C2_NoMenuLinkOnlyHomepage ==
    (NodeExists(100) /\ ~HasMicrositesLink) =>
        /\ \A i \in 1..Len(queries) : queries[i].q # "children"
        /\ ReturnedOk => (Len(Returned) = 1 /\ Returned[1].nid = 100)

\* C2 witness: a homepage whose only link is in another menu, while enabled
\* microsites links name that link as their parent; the call has returned.
C2_Witness ==
    /\ ReturnedOk
    /\ NodeExists(100)
    /\ ~HasMicrositesLink
    /\ \E l \in store.links :
           /\ l.menu_name = "microsites" /\ l.enabled = 1
           /\ l.parent = "menu_link_content:uuid-1"
           /\ l.link_uri = "entity:node/200"
    /\ Len(Returned) = 1
    /\ Returned[1].nid = 100

\* the pages pushed by the children loop, as indices of the returned list
ChildIndices == {i \in 1..Len(built) : ~built[i].home}

\* every non-homepage page comes from a qualifying link
C3_PagesFromLinks ==
    \A i \in ChildIndices :
        /\ IsSome(homepage_uuid)
        /\ \E l \in QualifyingLinks(Unwrap(homepage_uuid)) :
               /\ Returned[i].menu_id = Some(l.id)
               /\ Returned[i].nid \in TargetNids(l)

\* C3 as stated: every non-homepage page returned is the target of an
\* enabled 'microsites' link whose parent is the homepage link's reference,
\* and every such link yields a page.
C3_Original ==
    ReturnedOk =>
        /\ C3_PagesFromLinks
        /\ IsSome(homepage_uuid) =>
               \A l \in QualifyingLinks(Unwrap(homepage_uuid)) :
                   \E i \in ChildIndices : Returned[i].menu_id = Some(l.id)

\* C3 amended: every non-homepage page returned is the target of an enabled
\* 'microsites' link whose parent is the homepage link's reference, and
\* every such link that points at an existing node yields a page.
C3_ChildrenAreDirectEnabledLinks ==
    ReturnedOk =>
        /\ C3_PagesFromLinks
        /\ IsSome(homepage_uuid) =>
               \A l \in QualifyingLinks(Unwrap(homepage_uuid)) :
                   TargetNids(l) # {} =>
                       \E i \in ChildIndices : Returned[i].menu_id = Some(l.id)

\* C3 witness: link 2 is a disabled child link to 200, link 3 an enabled
\* child link to 300, and only 300 follows the homepage.
C3_Witness ==
    /\ ReturnedOk
    /\ homepage_uuid = Some("uuid-1")
    /\ \E l2, l3 \in store.links :
           /\ l2.id = 2 /\ l2.link_uri = "entity:node/200" /\ l2.enabled = 0
           /\ l2.menu_name = "microsites" /\ l2.parent = "menu_link_content:uuid-1"
           /\ l3.id = 3 /\ l3.link_uri = "entity:node/300"
           /\ l3.parent = "menu_link_content:uuid-1"
    /\ Len(Returned) = 2
    /\ Returned[1].nid = 100
    /\ Returned[2].nid = 300

-----------------------------------------------------------------------------
(* Claims about From<PageRow>, checked under SpecFuse *)

Converted == pc = "from_done"

\* s ends with p
EndsWith(s, p) == Len(s) >= Len(p) /\ SubSeq(s, Len(s) - Len(p) + 1, Len(s)) = p

\* p occurs in s
Contains(s, p) == \E i \in 1..(Len(s) - Len(p) + 1) : SubSeq(s, i, i + Len(p) - 1) = p

\* C4: the fused body is the present fragments in the order summary, body,
\* field_body with exactly one "\n\n" between two consecutive present ones;
\* spelled out for each of the eight presence combinations.
C4_FusedBodyByPresence ==
    Converted =>
        LET hasS == arg.summary_value # None
            hasB == arg.body_value # None
            hasE == arg.field_body_value # None
            S    == arg.summary_value[1]
            B    == arg.body_value[1]
            E    == arg.field_body_value[1]
        IN  ret.body_html =
                CASE ~hasS /\ ~hasB /\ ~hasE -> ""
                  [] hasS /\ ~hasB /\ ~hasE  -> S
                  [] ~hasS /\ hasB /\ ~hasE  -> B
                  [] ~hasS /\ ~hasB /\ hasE  -> E
                  [] hasS /\ hasB /\ ~hasE   -> S \o "\n\n" \o B
                  [] hasS /\ ~hasB /\ hasE   -> S \o "\n\n" \o E
                  [] ~hasS /\ hasB /\ hasE   -> B \o "\n\n" \o E
                  [] hasS /\ hasB /\ hasE    -> S \o "\n\n" \o B \o "\n\n" \o E

\* C4 witness: body "B" and field_body "E" without a summary fuse to
\* "B\n\nE".
C4_Witness ==
    /\ Converted
    /\ arg.summary_value = None
    /\ arg.body_value = Some("B")
    /\ arg.field_body_value = Some("E")
    /\ ret.body_html = "B\n\nE"

\* C5: only non-empty fragments take part in the fusion: the fused body is
\* the non-empty fragments joined by "\n\n", so it neither starts nor ends
\* with a separator nor holds two separators in a row.
C5_OnlyNonEmptyFragmentsFused ==
    Converted =>
        LET nonEmpty(o) == IF o # None /\ o[1] # "" THEN o ELSE <<>>
            parts == nonEmpty(arg.summary_value) \o nonEmpty(arg.body_value)
                         \o nonEmpty(arg.field_body_value)
        IN  /\ ret.body_html = Join(parts, "\n\n")
            /\ ~StartsWith(ret.body_html, "\n\n")
            /\ ~EndsWith(ret.body_html, "\n\n")
            /\ ~Contains(ret.body_html, "\n\n\n\n")

-----------------------------------------------------------------------------
(* Claims about the assembled pages, checked under SpecRows *)

\* C6: the title of every page of the list is the title override of the row
\* it was built from when the row carries one, and the node's base title
\* otherwise; a node without any override row gets its base title.
C6_TitleOverrideElseBase ==
    \A i \in 1..Len(pages) :
        LET row == built[i].row
        IN  /\ pages[i].title = IF row.page_title # None THEN row.page_title[1]
                                ELSE row.title
            /\ row.title = BaseTitle(pages[i].nid)
            /\ (\A r \in store.page_title : r.entity_id # pages[i].nid)
                   => pages[i].title = BaseTitle(pages[i].nid)

\* C6 witness: the homepage carries the override 'Welcome', the child page
\* 200 has no override and keeps 'About'.
C6_Witness ==
    /\ ReturnedOk
    /\ Len(Returned) = 2
    /\ \E r \in store.page_title : r.entity_id = 100 /\ r.value = "Welcome"
    /\ Returned[1].title = "Welcome"
    /\ Returned[2].title = "About"

\* the markup of a node in a store of SpecRows: its fragment, if any, is the
\* headline 'Welcome' alone
HeadlineMarkup(nid) ==
    IF \E f \in store.featured : f.entity_id = nid THEN "<h3>Welcome</h3>\n" ELSE ""

\* C8: for the homepage and for every child page, the body is the fused body
\* when the fragment markup is empty, the markup when the fused body is
\* empty, and fused body, "\n\n", markup when neither is.
C8_BodyWithFragmentMarkup ==
    \A i \in 1..Len(pages) :
        LET fused  == FusedBody(built[i].row)
            markup == HeadlineMarkup(pages[i].nid)
        IN  /\ markup = "" => pages[i].body_html = fused
            /\ (markup # "" /\ fused = "") => pages[i].body_html = markup
            /\ (markup # "" /\ fused # "")
                   => pages[i].body_html = fused \o "\n\n" \o markup

\* C8 witness: the homepage has a body and a fragment, the child page a
\* fragment only.
C8_Witness ==
    /\ ReturnedOk
    /\ Len(Returned) = 2
    /\ Returned[1].body_html = "<p>Body</p>\n\n<h3>Welcome</h3>\n"
    /\ Returned[2].body_html = "<h3>Welcome</h3>\n"

-----------------------------------------------------------------------------
(* Claims about featured_pages_content, checked under SpecRender *)

Rendered == pc = "render_done" /\ ret.ok

\* the references of the rendered node
FragmentsOf(nid) == {f \in store.featured : f.entity_id = nid}

\* the markup of one fragment: image, heading, text, link
ExpectedElement(f) ==
    LET img  == IF f.image_uri = None THEN ""
                ELSE LET uri == f.image_uri[1]
                         src == IF uri = "public://logo.png"
                                THEN "/sites/default/files/logo.png" ELSE uri
                     IN  "<p><img src=\"" \o src \o "\" alt=\"\"></p>\n"
        h3   == IF f.headline = None THEN ""
                ELSE "<h3>" \o f.headline[1] \o "</h3>\n"
        text == IF f.summary_text_2 = None THEN "" ELSE f.summary_text_2[1] \o "\n"
        link == IF f.button_uri = None THEN ""
                ELSE "<p><a href=\"" \o f.button_uri[1] \o "\">"
                         \o (IF f.button_title = None THEN f.button_uri[1]
                             ELSE f.button_title[1])
                         \o "</a></p>\n"
    IN  img \o h3 \o text \o link

\* the fragments with delta d, d + 1, ... in that order
RECURSIVE ExpectedMarkup(_, _)
ExpectedMarkup(nid, d) ==
    IF \E f \in FragmentsOf(nid) : f.delta = d
    THEN ExpectedElement(CHOOSE f \in FragmentsOf(nid) : f.delta = d)
             \o ExpectedMarkup(nid, d + 1)
    ELSE ""

\* C7: the markup is the concatenation, over the fragments in ascending
\* delta, of image element, <h3> heading, text and newline, and link whose
\* text is the button title or else the URI, each only when present.
C7_MarkupPerFragment == Rendered => ret.html = ExpectedMarkup(arg, 0)

\* C7 witness: a single fragment with only the headline 'Welcome' renders
\* "<h3>Welcome</h3>\n".
C7_Witness ==
    /\ Rendered
    /\ FragmentsOf(arg) = {HeadlineOnly(200, 0)}
    /\ ret.html = "<h3>Welcome</h3>\n"

\* C9: the image element follows drupal_uri_to_path: a URI it maps to a path
\* is emitted as that path, and a URI it maps to nothing never appears as an
\* img src.
C9_ImageSrcFollowsUriToPath ==
    Rendered =>
        \A f \in FragmentsOf(arg) :
            f.image_uri # None =>
                LET uri  == f.image_uri[1]
                    path == drupal_uri_to_path(uri)
                IN  IF path # None
                    THEN Contains(ret.html, "<img src=\"" \o path[1] \o "\"")
                    ELSE ~Contains(ret.html, "<img src=\"" \o uri \o "\"")

-----------------------------------------------------------------------------
(* Claims about drupal_uri_to_path, checked under SpecUri *)

\* C10: the result is '/sites/default/files/' followed by the remainder
\* exactly when the URI is 'public://' followed by that remainder, and None
\* otherwise.
C10_PublicPrefixOnly ==
    pc = "uri_done" =>
        LET rests == {r \in {SubSeq(arg, i, Len(arg)) : i \in 1..(Len(arg) + 1)} :
                         arg = "public://" \o r}
        IN  IF rests # {}
            THEN \E r \in rests : ret = Some("/sites/default/files/" \o r)
            ELSE ret = None

\* C10 witness: the URI of the unit test.
C10_Witness ==
    /\ pc = "uri_done"
    /\ arg = "public://2025-06/IMG_4377.jpeg"
    /\ ret = Some("/sites/default/files/2025-06/IMG_4377.jpeg")

-----------------------------------------------------------------------------
(* Claims about failing and empty lookups of pages_for_club *)

\* C17: a step in which a query fails ends the call with the error and
\* without a page list, whatever pages were assembled before; no query is
\* issued after the call has ended, and no query is issued twice from the
\* same point of the call (every issued query moves the call on).
C17_FailureReturnsErrorOnly ==
    [][/\ (queries' # queries /\ pc' = "done")
              => /\ IsSome(result')
                 /\ ~Unwrap(result').ok
                 /\ DOMAIN Unwrap(result') = {"ok"}
       /\ (queries' # queries)
              => /\ pc # "done"
                 /\ Len(queries') = Len(queries) + 1
                 /\ (pc' # pc \/ Len(content_pages') < Len(content_pages))
       /\ (pc = "done") => UNCHANGED result]_vars

\* C17 witness: the call has ended with the error after the homepage and a
\* child page had been assembled; the failed query is the last one issued.
C17_Witness ==
    /\ pc = "done"
    /\ IsSome(result)
    /\ ~Unwrap(result).ok
    /\ Len(pages) = 2
    /\ Len(content_pages) > 0
    /\ queries[Len(queries)].q = "featured"

\* C18: when the store has no entity row for the homepage id, a successful
\* call returns the empty list.
C18_MissingHomepageGivesEmptyList ==
    (ReturnedOk /\ ~NodeExists(homepage_nid)) => Returned = <<>>

-----------------------------------------------------------------------------
(* Claims about the field rows behind a page, checked under SpecRows *)

\* the undeleted rows of a field table for a node
LiveRows(table, nid) == {r \in table : r.entity_id = nid /\ r.deleted = 0}

\* the slot read from a field table holds the value of an undeleted row of
\* the node, and is absent when the node has none
FromLiveRow(slot, table, nid) ==
    IF slot = None THEN TRUE
    ELSE \E r \in LiveRows(table, nid) : r.value = slot[1]

\* C19: every slot of every assembled page comes from an undeleted field row:
\* the title override, body, summary and alternate body of the row a page is
\* built from are values of rows with deleted = 0, so a node whose only
\* override row is soft-deleted keeps its base title and a node whose only
\* body row is soft-deleted has no body.
C19_DeletedRowsIgnored ==
    \A i \in 1..Len(pages) :
        LET row == built[i].row
            nid == pages[i].nid
        IN  /\ FromLiveRow(row.page_title, store.page_title, nid)
            /\ FromLiveRow(row.body_value, store.body, nid)
            /\ FromLiveRow(row.summary_value, store.summary, nid)
            /\ FromLiveRow(row.field_body_value, store.field_body, nid)
            /\ LiveRows(store.page_title, nid) = {}
                   => pages[i].title = BaseTitle(nid)

-----------------------------------------------------------------------------
(* Two calls of pages_for_club on the same store *)

\* A caller that has received Ok(pages) keeps it and calls pages_for_club
\* again with the same homepage id; the store is not written in between.
\* Every local of the call starts afresh, as at the first call.
CallAgain ==
    /\ pc = "done"
    /\ ret = None
    /\ IsSome(result)
    /\ Unwrap(result).ok
    /\ ret' = result
    /\ pc' = "menu_uuid"
    /\ homepage_uuid' = None
    /\ homepage' = None
    /\ content_pages' = <<>>
    /\ pages' = <<>>
    /\ built' = <<>>
    /\ result' = None
    /\ queries' = <<>>
    /\ UNCHANGED <<store, homepage_nid, arg>>

NextTwice == Next \/ CallAgain

SpecTwice == Init /\ [][NextTwice]_vars

\* both calls have returned Ok
BothReturnedOk == ReturnedOk /\ IsSome(ret)

\* C20: two successful calls of pages_for_club on the same unchanged store,
\* with the same homepage id, return equal page lists.
C20_TwoCallsReturnEqualLists ==
    BothReturnedOk => Unwrap(ret).pages = Returned

-----------------------------------------------------------------------------
(* extract_media_urls:
   (?:src|href)=["']([^"']*?/sites/default/files/[^"']+)["'] *)

\* the literal in the middle of MEDIA_RE
MediaSegment == "/sites/default/files/"

CharAt(s, i) == SubSeq(s, i, i)

\* the class ["']
IsQuote(c) == c = "\"" \/ c = "'"

\* the position of the first quote of either kind at or after i, 0 if none
RECURSIVE NextQuote(_, _)
NextQuote(s, i) ==
    IF i > Len(s) THEN 0
    ELSE IF IsQuote(CharAt(s, i)) THEN i
    ELSE NextQuote(s, i + 1)

\* (?:src|href)= at position i: the length of what it matches, 0 if nothing
AttrLen(s, i) ==
    IF i + 3 <= Len(s) /\ SubSeq(s, i, i + 3) = "src=" THEN 4
    ELSE IF i + 4 <= Len(s) /\ SubSeq(s, i, i + 4) = "href=" THEN 5
    ELSE 0

\* faulty variant: the segment is not asked for
ValueMatchesAny(run) == Len(run) > 0

\* [^"']*?/sites/default/files/[^"']+ against a run of characters without
\* quotes: the segment occurs in it and at least one character follows
ValueMatches(run) ==
    \E k \in 1..Len(run) :
        /\ k + Len(MediaSegment) - 1 < Len(run)
        /\ SubSeq(run, k, k + Len(MediaSegment) - 1) = MediaSegment

\* A match of MEDIA_RE starting at i. Group 1 holds no quote and is followed
\* by one, so it is the whole run between the opening quote and the next
\* quote of either kind.
MatchAt(s, i) ==
    LET n     == AttrLen(s, i)
        open  == i + n
        close == NextQuote(s, open + 1)
        run   == SubSeq(s, open + 1, close - 1)
    IN  IF /\ n > 0
           /\ open <= Len(s)
           /\ IsQuote(CharAt(s, open))
           /\ close > 0
           /\ ValueMatches(run)
        THEN [found |-> TRUE, group |-> run, end |-> close]
        ELSE [found |-> FALSE, group |-> "", end |-> 0]

\* captures_iter: the leftmost match from i on, then on from its end; the
\* matches do not overlap. Group 1 of each is collected.
RECURSIVE captures_iter(_, _)
captures_iter(s, i) ==
    IF i > Len(s) THEN <<>>
    ELSE LET m == MatchAt(s, i)
         IN  IF m.found THEN <<m.group>> \o captures_iter(s, m.end + 1)
             ELSE captures_iter(s, i + 1)

extract_media_urls(html) == captures_iter(html, 1)

\* largest number of pieces of an HTML input
MaxPieces == 3

\* A piece of HTML: an attribute name="value" with its two quote characters
\* (an empty quote is no quote), or plain text when the name is empty.
Piece(name, open, value, close) ==
    [name |-> name, open |-> open, value |-> value, close |-> close]

HtmlPieces ==
    {Piece("src", "\"", "/sites/default/files/a.png", "\""),
     Piece("href", "'", "/sites/default/files/b.pdf", "'"),
     Piece("src", "\"", "https://example.com/x.png", "\""),
     Piece("alt", "\"", "logo", "\""),
     Piece("href", "\"", "/sites/default/files/", "\""),
     Piece("data-src", "\"", "/sites/default/files/c.jpg", "\""),
     Piece("src", "\"", "/sites/default/files/d.gif", "'"),
     Piece("", "", "see /sites/default/files/e.txt", ""),
     Piece("href", "\"", "https://cdn.example.com/sites/default/files/f.png", "\""),
     Piece("src", "", "/sites/default/files/g.png", ""),
     Piece("href", "\"", "/sites/default/files/o'neil.jpg", "\"")}

\* the text of a piece
PieceText(p) ==
    IF p.name = "" THEN p.value
    ELSE p.name \o "=" \o p.open \o p.value \o p.close

\* the HTML of a sequence of pieces: one element holding them all
RECURSIVE PiecesText(_)
PiecesText(ps) ==
    IF ps = <<>> THEN "" ELSE " " \o PieceText(Head(ps)) \o PiecesText(Tail(ps))

Html(ps) == "<img" \o PiecesText(ps) \o ">"

HtmlInputs == UNION {[1..n -> HtmlPieces] : n \in 0..MaxPieces}

\* let urls = extract_media_urls(&html);
ApplyExtract ==
    /\ pc = "extract_call"
    /\ ret' = extract_media_urls(Html(arg))
    /\ pc' = "extract_done"
    /\ UNCHANGED <<callVars, arg>>

\* a second call on the same input; MEDIA_RE is compiled once and holds no
\* state that a search changes
ApplyExtractAgain ==
    /\ pc = "extract_done"
    /\ built' = extract_media_urls(Html(arg))
    /\ pc' = "extract_again"
    /\ UNCHANGED <<store, homepage_nid, homepage_uuid, homepage, content_pages,
                   pages, result, queries, arg, ret>>

InitExtract == InitPure("extract_call", {EmptyStore}, HtmlInputs)

NextExtract == ApplyExtract \/ ApplyExtractAgain

SpecExtract == InitExtract /\ [][NextExtract]_vars

-----------------------------------------------------------------------------
(* Claims about extract_media_urls, checked under SpecExtract *)

Extracted == pc \in {"extract_done", "extract_again"}

ValuesOf(ps) == [i \in 1..Len(ps) |-> ps[i].value]

\* a piece that is an occurrence of src= or href= followed by a value in
\* quotes (of either kind)
QuotedSrcOrHref(p) ==
    /\ EndsWith(p.name, "src") \/ EndsWith(p.name, "href")
    /\ p.open \in {"\"", "'"}
    /\ p.close \in {"\"", "'"}

\* the value of the piece contains the segment
HasSegmentValue(p) ==
    QuotedSrcOrHref(p) /\ Contains(p.value, "/sites/default/files/")

\* C12: the returned list is exactly the values of the quoted src= and href=
\* attributes of the input whose value contains the segment, in order of
\* appearance and with duplicates kept.
C12_ExactlyQuotedValuesWithSegment ==
    Extracted => ret = ValuesOf(SelectSeq(arg, HasSegmentValue))

-----------------------------------------------------------------------------
(* clubs_with_microsites *)

\* a node_field_data row with its type column
TypedNode(nid, type, title) == [nid |-> nid, type |-> type, title |-> title]

\* a node__field_club_number row
ClubNumberRow(nid, deleted, value) ==
    [entity_id |-> nid, deleted |-> deleted, delta |-> 0, value |-> value]

\* (club.nid, hp.nid) IN ((51008, 55629), (47596, 50698))
OverridePairs == {<<51008, 55629>>, <<47596, 50698>>}

\* the selected columns of one joined row; cn is the LEFT JOINed number row
ClubRow(club, hp, cn) ==
    [club_nid     |-> club.nid,
     club_number  |-> ValueOf(cn),
     club_name    |-> club.title,
     homepage_nid |-> hp.nid,
     is_intraclub |-> ~IsSome(cn)]

\* LEFT JOIN node__field_club_number cn ON cn.entity_id = club.nid
ClubNumbers(st, club) == LeftJoin({r \in st.club_number : r.entity_id = club.nid})

\* faulty variant: the club's type is not compared
TitleMatchesAnyType(st) ==
    {ClubRow(j[2], j[1], j[3]) :
        j \in UNION {{<<hp, club, cn>> : cn \in ClubNumbers(st, club)} :
                     <<hp, club>> \in {hc \in st.nodes \X st.nodes :
                                          /\ hc[1].type = "microsite_homepage"
                                          /\ hc[2].title = hc[1].title}}}

\* FROM node_field_data hp JOIN node_field_data club ON club.title = hp.title
\* AND club.type = 'ssp_club' LEFT JOIN ... WHERE hp.type = 'microsite_homepage'
TitleMatches(st) ==
    {ClubRow(j[2], j[1], j[3]) :
        j \in UNION {{<<hp, club, cn>> : cn \in ClubNumbers(st, club)} :
                     <<hp, club>> \in {hc \in st.nodes \X st.nodes :
                                          /\ hc[1].type = "microsite_homepage"
                                          /\ hc[2].title = hc[1].title
                                          /\ hc[2].type = "ssp_club"}}}

\* FROM node_field_data club JOIN node_field_data hp ON (club.nid, hp.nid) IN
\* (...) LEFT JOIN ... WHERE club.type = 'ssp_club' AND hp.type =
\* 'microsite_homepage'
Overrides(st) ==
    {ClubRow(j[1], j[2], j[3]) :
        j \in UNION {{<<club, hp, cn>> : cn \in ClubNumbers(st, club)} :
                     <<club, hp>> \in {ch \in st.nodes \X st.nodes :
                                          /\ <<ch[1].nid, ch[2].nid>> \in OverridePairs
                                          /\ ch[1].type = "ssp_club"
                                          /\ ch[2].type = "microsite_homepage"}}}

\* UNION: the rows of both selects, equal rows once
ClubRows(st) == TitleMatches(st) \cup Overrides(st)

\* club_number ascending as MySQL sorts it: NULL before every number
NumberLess(a, b) ==
    IF ~IsSome(b) THEN FALSE
    ELSE IF ~IsSome(a) THEN TRUE
    ELSE Unwrap(a) < Unwrap(b)

\* faulty variant: ORDER BY club_name, is_intraclub, club_number
ClubRowLessNameFirst(x, y) ==
    \/ StrLess(x.club_name, y.club_name)
    \/ /\ x.club_name = y.club_name
       /\ \/ ~x.is_intraclub /\ y.is_intraclub
          \/ /\ x.is_intraclub = y.is_intraclub
             /\ NumberLess(x.club_number, y.club_number)

\* ORDER BY is_intraclub, club_number, club_name: x sorts before y
ClubRowLess(x, y) ==
    \/ ~x.is_intraclub /\ y.is_intraclub
    \/ /\ x.is_intraclub = y.is_intraclub
       /\ \/ NumberLess(x.club_number, y.club_number)
          \/ /\ x.club_number = y.club_number
             /\ StrLess(x.club_name, y.club_name)

\* every order the sort may return; rows equal in the three keys come in any
\* order
RECURSIVE ClubSortedSeqs(_)
ClubSortedSeqs(rows) ==
    IF rows = {} THEN {<<>>}
    ELSE UNION {{<<x>> \o rest : rest \in ClubSortedSeqs(rows \ {x})} :
                x \in {y \in rows : \A z \in rows : ~ClubRowLess(z, y)}}

\* the lists fetch_all can return
clubs_with_microsites(st) == ClubSortedSeqs(ClubRows(st))

\* largest number of node rows of a store of SpecClubs
MaxClubNodes == 6

\* The nodes a store of SpecClubs draws from: the first override pair (the
\* homepage also as a node of another type), a club with two homepages of
\* its title and a page of its title, a club without homepage, and the
\* second override pair. Titles differ in letters, not in case or accents
\* only, so every collation compares them alike.
ClubNodeUniverse ==
    {TypedNode(51008, "ssp_club", "Boondocking Streamers"),
     TypedNode(55629, "microsite_homepage", "Boondockers Airstream Club"),
     TypedNode(55629, "page", "Boondockers Airstream Club"),
     TypedNode(100, "ssp_club", "Alabama"),
     TypedNode(200, "microsite_homepage", "Alabama"),
     TypedNode(201, "microsite_homepage", "Alabama"),
     TypedNode(300, "page", "Alabama"),
     TypedNode(101, "ssp_club", "Zephyr"),
     TypedNode(47596, "ssp_club", "Vintage Airstream Club"),
     TypedNode(50698, "microsite_homepage", "Vintage Airstream Club VAC")}

ClubNumberUniverse ==
    {ClubNumberRow(51008, 0, 2),
     ClubNumberRow(100, 0, 5),
     ClubNumberRow(100, 1, 3),
     ClubNumberRow(47596, 0, 5)}

ClubStores ==
    {[nodes |-> ns, club_number |-> cs] :
        ns \in {s \in SUBSET ClubNodeUniverse :
                   /\ Cardinality(s) <= MaxClubNodes
                   /\ \A a, b \in s : a.nid = b.nid => a = b},
        cs \in SUBSET ClubNumberUniverse}

\* .fetch_all(pool).await succeeding
ApplyClubs ==
    /\ pc = "clubs_call"
    /\ Issue("clubs", 0)
    /\ \E rows \in clubs_with_microsites(store) :
           ret' = [ok |-> TRUE, rows |-> rows]
    /\ pc' = "clubs_done"
    /\ UNCHANGED <<store, homepage_nid, homepage_uuid, homepage, content_pages,
                   pages, built, result, arg>>

\* .fetch_all(pool).await.map_err(Error::from) on a failed query
ApplyClubsFails ==
    /\ pc = "clubs_call"
    /\ Issue("clubs", 0)
    /\ ret' = Err
    /\ pc' = "clubs_done"
    /\ UNCHANGED <<store, homepage_nid, homepage_uuid, homepage, content_pages,
                   pages, built, result, arg>>

InitClubs == InitPure("clubs_call", ClubStores, {None})

NextClubs == ApplyClubs \/ ApplyClubsFails

SpecClubs == InitClubs /\ [][NextClubs]_vars

-----------------------------------------------------------------------------
(* Claims about clubs_with_microsites, checked under SpecClubs *)

\* the call has returned Ok(rows)
ClubsReturned == pc = "clubs_done" /\ ret.ok

\* the (club id, homepage id) pairs of the returned rows
ReturnedPairs == {<<ret.rows[i].club_nid, ret.rows[i].homepage_nid>> :
                     i \in 1..Len(ret.rows)}

\* the pairs of nodes of the store that bind: a club and a homepage by type,
\* with equal titles or as one of the two fixed pairs
BoundPairs ==
    {<<ch[1].nid, ch[2].nid>> :
        ch \in {p \in store.nodes \X store.nodes :
                   /\ p[1].type = "ssp_club"
                   /\ p[2].type = "microsite_homepage"
                   /\ \/ p[1].title = p[2].title
                      \/ <<p[1].nid, p[2].nid>> = <<51008, 55629>>
                      \/ <<p[1].nid, p[2].nid>> = <<47596, 50698>>}}

\* C13: the list has a row for a pair (club, homepage) if and only if the
\* club's type is 'ssp_club', the homepage's type is 'microsite_homepage' and
\* their titles are equal or the pair is one of the two override pairs; the
\* row carries the club's title as its name. A club without such a homepage
\* has no row, a club with several has a row for each.
C13_RowIffTypedTitleOrOverride ==
    ClubsReturned
        => /\ ReturnedPairs = BoundPairs
           /\ \A i \in 1..Len(ret.rows) :
                  \E c \in store.nodes :
                      /\ c.nid = ret.rows[i].club_nid
                      /\ c.title = ret.rows[i].club_name

\* C13 witness: club 100 has two homepages of its title and a row for each,
\* club 51008 is bound to 55629 by override although the titles differ, and
\* club 101, without homepage, has no row.
C13_Witness ==
    /\ ClubsReturned
    /\ \E c \in store.nodes : c.nid = 101 /\ c.type = "ssp_club"
    /\ ReturnedPairs = {<<100, 200>>, <<100, 201>>, <<51008, 55629>>}
    /\ Len(ret.rows) = 3

\* the order of the club names of the model
NameRank(t) ==
    CASE t = "Alabama" -> 1
      [] t = "Boondocking Streamers" -> 2
      [] t = "Vintage Airstream Club" -> 3
      [] t = "Zephyr" -> 4

\* C14: every row is flagged intraclub exactly when it has no club number,
\* and the list is sorted: rows with a number before rows without, rows with
\* a number by number ascending, rows equal in flag and number by club name
\* ascending.
C14_IntraclubFlagAndOrder ==
    ClubsReturned
        => /\ \A i \in 1..Len(ret.rows) :
                  ret.rows[i].is_intraclub = (ret.rows[i].club_number = <<>>)
           /\ \A i \in 1..Len(ret.rows) : \A j \in (i + 1)..Len(ret.rows) :
                  LET a == ret.rows[i]
                      b == ret.rows[j]
                  IN  /\ a.is_intraclub => b.is_intraclub
                      /\ a.club_number = <<>> => b.club_number = <<>>
                      /\ (a.club_number # <<>> /\ b.club_number # <<>>)
                             => a.club_number[1] <= b.club_number[1]
                      /\ a.club_number = b.club_number
                             => NameRank(a.club_name) <= NameRank(b.club_name)

\* C14 witness: number 2 comes before number 5 although 'Boondocking
\* Streamers' sorts after 'Alabama' by name, and the club without number is
\* flagged intraclub and comes last.
C14_Witness ==
    /\ ClubsReturned
    /\ Len(ret.rows) = 3
    /\ ret.rows[1].club_name = "Boondocking Streamers"
    /\ ret.rows[1].club_number = <<2>>
    /\ ret.rows[2].club_name = "Alabama"
    /\ ret.rows[2].club_number = <<5>>
    /\ ~ret.rows[2].is_intraclub
    /\ ret.rows[3].club_name = "Vintage Airstream Club"
    /\ ret.rows[3].club_number = <<>>
    /\ ret.rows[3].is_intraclub

-----------------------------------------------------------------------------
(* homepage_assets *)

\* s LIKE '%infix%', for the lower-case names and URLs of the model
Like(s, infix) ==
    \E i \in 1..(Len(s) - Len(infix) + 1) : SubSeq(s, i, i + Len(infix) - 1) = infix

\* a row of a reference field table: entity_id and the target id
Ref(entity_id, target_id) == [entity_id |-> entity_id, target_id |-> target_id]

\* a row of a link or button field table: entity_id and the URI
UriRow(entity_id, uri) == [entity_id |-> entity_id, uri |-> uri]

\* FROM node__field_desktop_banner_image dbi JOIN media__field_media_image mfi
\* JOIN file_managed f WHERE dbi.entity_id = ?: the URIs of the joined rows
BannerUris(st, nid) ==
    {j[3].uri : j \in {t \in st.banner \X st.media_image \X st.files :
                          /\ t[1].entity_id = nid
                          /\ t[2].entity_id = t[1].target_id
                          /\ t[3].fid = t[2].target_id}}

\* faulty variant: the media name is not compared
LogoRowsAnyName(st, nid) ==
    {[mid |-> j[2].mid, uri |-> j[4].uri] :
        j \in {t \in st.media_club \X st.media \X st.media_image \X st.files :
                  /\ t[1].target_id = nid
                  /\ t[2].mid = t[1].entity_id
                  /\ t[3].entity_id = t[2].mid
                  /\ t[4].fid = t[3].target_id}}

\* FROM media__field_club mfc JOIN media_field_data m JOIN
\* media__field_media_image mfi JOIN file_managed f WHERE
\* mfc.field_club_target_id = ? AND m.name LIKE '%logo%'
LogoRows(st, nid) ==
    {[mid |-> j[2].mid, uri |-> j[4].uri] :
        j \in {t \in st.media_club \X st.media \X st.media_image \X st.files :
                  /\ t[1].target_id = nid
                  /\ t[2].mid = t[1].entity_id
                  /\ t[3].entity_id = t[2].mid
                  /\ t[4].fid = t[3].target_id
                  /\ Like(t[2].name, "logo")}}

\* ORDER BY m.mid LIMIT 1: the URI of a row with the smallest mid
LogoUris(st, nid) ==
    {r.uri : r \in {x \in LogoRows(st, nid) :
                       \A y \in LogoRows(st, nid) : x.mid <= y.mid}}

\* the inner select named social, before its LIMIT 1
SocialUrls(st, nid) ==
    {j[2].uri : j \in {t \in st.social_new \X st.social_link :
                          /\ t[1].entity_id = nid
                          /\ t[2].entity_id = t[1].target_id
                          /\ Like(t[2].uri, "facebook.com")}}

\* the inner select named button, before its LIMIT 1
ButtonUrls(st, nid) ==
    {r.uri : r \in {b \in st.button : b.entity_id = nid /\ Like(b.uri, "facebook.com")}}

\* LIMIT 1 without ORDER BY: no row of none, else any one row
LimitOne(rows) == IF rows = {} THEN {{}} ELSE {{r} : r \in rows}

\* SELECT url FROM (... LIMIT 1) social UNION SELECT url FROM (... LIMIT 1)
\* button LIMIT 1, fetch_optional: the UNION has no ORDER BY, so the row the
\* outer LIMIT 1 keeps is any row of the union
FacebookUrls(st, nid) ==
    UNION {IF s \cup b = {} THEN {None} ELSE {Some(u) : u \in s \cup b} :
           <<s, b>> \in LimitOne(SocialUrls(st, nid)) \X LimitOne(ButtonUrls(st, nid))}

\* fetch_optional of a scalar query: the first row's value, or None
Optional(values) == IF values = {} THEN {None} ELSE {Some(v) : v \in values}

\* first query; the locals assigned so far are kept in `built`
QueryBanner ==
    /\ pc = "banner"
    /\ Issue("banner", homepage_nid)
    /\ \E banner_image \in Optional(BannerUris(store, homepage_nid)) :
           built' = <<banner_image>>
    /\ pc' = "logo"
    /\ UNCHANGED <<store, homepage_nid, homepage_uuid, homepage, content_pages,
                   pages, result, arg, ret>>

QueryLogo ==
    /\ pc = "logo"
    /\ Issue("logo", homepage_nid)
    /\ \E logo_image \in Optional(LogoUris(store, homepage_nid)) :
           built' = Append(built, logo_image)
    /\ pc' = "facebook"
    /\ UNCHANGED <<store, homepage_nid, homepage_uuid, homepage, content_pages,
                   pages, result, arg, ret>>

\* third query and Ok(HomepageAssets { .. })
QueryFacebook ==
    /\ pc = "facebook"
    /\ Issue("facebook", homepage_nid)
    /\ \E facebook_url \in FacebookUrls(store, homepage_nid) :
           result' = Some([ok           |-> TRUE,
                           banner_image |-> built[1],
                           logo_image   |-> built[2],
                           facebook_url |-> facebook_url])
    /\ pc' = "assets_done"
    /\ UNCHANGED <<store, homepage_nid, homepage_uuid, homepage, content_pages,
                   pages, built, arg, ret>>

\* `.await?` of any of the three queries failing
AssetsQueryFails ==
    /\ \/ pc = "banner" /\ Issue("banner", homepage_nid)
       \/ pc = "logo" /\ Issue("logo", homepage_nid)
       \/ pc = "facebook" /\ Issue("facebook", homepage_nid)
    /\ result' = Some(Err)
    /\ pc' = "assets_done"
    /\ UNCHANGED <<store, homepage_nid, homepage_uuid, homepage, content_pages,
                   pages, built, arg, ret>>

NextAssets == QueryBanner \/ QueryLogo \/ QueryFacebook \/ AssetsQueryFails

\* largest number of reference and button rows of a store of SpecAssets
MaxAssetRows == 5

\* file_managed and media_field_data of every store of SpecAssets; media 2
\* is a document named after the logo and has no image row
AssetFiles ==
    {[fid |-> 11, uri |-> "public://banner.jpg"],
     [fid |-> 12, uri |-> "public://other.jpg"],
     [fid |-> 13, uri |-> "public://logo-old.png"],
     [fid |-> 14, uri |-> "public://logo-new.png"]}

AssetMedia ==
    {[mid |-> 1, name |-> "banner"],
     [mid |-> 2, name |-> "logo guidelines"],
     [mid |-> 3, name |-> "club logo"],
     [mid |-> 4, name |-> "logo 2024"],
     [mid |-> 6, name |-> "rally photo"]}

\* paragraph__field_social_media_link of every store of SpecAssets
AssetSocialLinks ==
    {UriRow(7, "https://facebook.com/club"),
     UriRow(8, "https://instagram.com/club"),
     UriRow(9, "https://www.facebook.com/groups/club")}

\* the rows a store of SpecAssets draws from, each tagged with its table;
\* 999 is another homepage
AssetRowUniverse ==
    {[table |-> "banner", row |-> Ref(100, 1)],
     [table |-> "banner", row |-> Ref(100, 6)],
     [table |-> "banner", row |-> Ref(999, 6)],
     [table |-> "media_image", row |-> Ref(1, 11)],
     [table |-> "media_image", row |-> Ref(3, 13)],
     [table |-> "media_image", row |-> Ref(4, 14)],
     [table |-> "media_image", row |-> Ref(6, 12)],
     [table |-> "media_club", row |-> Ref(3, 100)],
     [table |-> "media_club", row |-> Ref(4, 100)],
     [table |-> "media_club", row |-> Ref(2, 100)],
     [table |-> "media_club", row |-> Ref(6, 100)],
     [table |-> "media_club", row |-> Ref(3, 999)],
     [table |-> "social_new", row |-> Ref(100, 7)],
     [table |-> "social_new", row |-> Ref(100, 8)],
     [table |-> "social_new", row |-> Ref(100, 9)],
     [table |-> "social_new", row |-> Ref(999, 7)],
     [table |-> "button", row |-> UriRow(100, "https://facebook.com/button")],
     [table |-> "button", row |-> UriRow(100, "https://example.com/join")],
     [table |-> "button", row |-> UriRow(999, "https://facebook.com/other")]}

AssetStores ==
    {[banner      |-> Table(rows, "banner"),
      media_image |-> Table(rows, "media_image"),
      files       |-> AssetFiles,
      media_club  |-> Table(rows, "media_club"),
      media       |-> AssetMedia,
      social_new  |-> Table(rows, "social_new"),
      social_link |-> AssetSocialLinks,
      button      |-> Table(rows, "button")] :
        rows \in {r \in SUBSET AssetRowUniverse : Cardinality(r) <= MaxAssetRows}}

InitAssets ==
    /\ store \in AssetStores
    /\ homepage_nid = 100
    /\ pc = "banner"
    /\ homepage_uuid = None
    /\ homepage = None
    /\ content_pages = <<>>
    /\ pages = <<>>
    /\ built = <<>>
    /\ result = None
    /\ queries = <<>>
    /\ arg = None
    /\ ret = None

SpecAssets == InitAssets /\ [][NextAssets]_vars

-----------------------------------------------------------------------------
(* Claims about homepage_assets, checked under SpecAssets *)

\* the call has returned Ok(HomepageAssets)
AssetsReturned == pc = "assets_done" /\ IsSome(result) /\ Unwrap(result).ok

Assets == Unwrap(result)

\* the links containing 'facebook.com' on the social-media paragraphs
\* attached to the homepage
SocialFacebookLinks ==
    {l.uri : l \in {k \in store.social_link :
                       /\ \E a \in store.social_new :
                              a.entity_id = homepage_nid /\ a.target_id = k.entity_id
                       /\ Contains(k.uri, "facebook.com")}}

\* the homepage's own button URIs containing 'facebook.com'
ButtonFacebookLinks ==
    {b.uri : b \in {k \in store.button :
                       k.entity_id = homepage_nid /\ Contains(k.uri, "facebook.com")}}

\* C15: the Facebook URL is a social-media link containing 'facebook.com'
\* whenever the homepage has one, whether or not its button field matches
\* too; it is the button URI only when no social-media link matches, and it
\* is absent when neither matches.
C15_SocialLinkBeforeButton ==
    AssetsReturned
        => /\ SocialFacebookLinks # {}
                  => /\ Assets.facebook_url # <<>>
                     /\ Assets.facebook_url[1] \in SocialFacebookLinks
           /\ (SocialFacebookLinks = {} /\ ButtonFacebookLinks # {})
                  => /\ Assets.facebook_url # <<>>
                     /\ Assets.facebook_url[1] \in ButtonFacebookLinks
           /\ (SocialFacebookLinks = {} /\ ButtonFacebookLinks = {})
                  => Assets.facebook_url = <<>>

\* the files of a media entity
FilesOfMedia(mid) ==
    {f.uri : f \in {g \in store.files :
                       \E i \in store.media_image :
                           i.entity_id = mid /\ i.target_id = g.fid}}

\* the media tagged with the homepage whose name contains 'logo' and that
\* have an image file
LogoMedia ==
    {m.mid : m \in {n \in store.media :
                       /\ \E t \in store.media_club :
                              t.entity_id = n.mid /\ t.target_id = homepage_nid
                       /\ Contains(n.name, "logo")
                       /\ FilesOfMedia(n.mid) # {}}}

\* the files of the banner media of the homepage
BannerFiles ==
    UNION {FilesOfMedia(b.target_id) :
           b \in {r \in store.banner : r.entity_id = homepage_nid}}

-----------------------------------------------------------------------------
(* Claims about duplicate field rows, checked under SpecRows *)

\* the positions of the returned list that hold the page of node nid
PositionsOf(nid) == {i \in 1..Len(Returned) : Returned[i].nid = nid}

\* the nodes the single child link of a store of SpecRows points at
LinkedChildren ==
    {n.nid : n \in {m \in store.nodes :
                       \E l \in store.links :
                           /\ l.menu_name = "microsites"
                           /\ l.enabled = 1
                           /\ l.parent = "menu_link_content:uuid-1"
                           /\ l.link_uri = "entity:node/" \o ToString(m.nid)}}

\* C21: whatever number of rows the field tables hold for a node, a
\* successful call returns the page of the homepage exactly once when its
\* entity row exists, and the page of every child node exactly once when the
\* homepage has its 'microsites' link; no node's page appears twice.
C21_EachPageExactlyOnce ==
    ReturnedOk
        => /\ NodeExists(homepage_nid) => Cardinality(PositionsOf(homepage_nid)) = 1
           /\ HasMicrositesLink
                  => \A c \in LinkedChildren : Cardinality(PositionsOf(c)) = 1
           /\ \A i, j \in 1..Len(Returned) :
                  Returned[i].nid = Returned[j].nid => i = j

-----------------------------------------------------------------------------
(* Claims about the order of the queries of one call, checked under Spec *)

IsFeatured(e) == e.q = "featured"

\* the fragment queries issued so far, in issue order
FeaturedLog == SelectSeq(queries, IsFeatured)

\* the kinds of the queries issued so far, in issue order
Kinds == [i \in 1..Len(queries) |-> queries[i].q]

\* the log follows the order of the call: the menu reference lookup, the
\* homepage projection, at most one fragment query (the homepage's), at most
\* one children query, then fragment queries only
LogInOrder ==
    /\ Len(queries) >= 1 => Kinds[1] = "menu_uuid"
    /\ Len(queries) >= 2 => Kinds[2] = "homepage"
    /\ \A i \in 3..Len(queries) : Kinds[i] \in {"featured", "children"}
    /\ \A i, j \in 3..Len(queries) :
           (Kinds[i] = "children" /\ Kinds[j] = "children") => i = j
    /\ \A i \in 3..Len(queries) :
           Kinds[i] = "children"
               => /\ i <= 4
                  /\ queries[i].param = "menu_link_content:" \o Unwrap(homepage_uuid)
    /\ \A i \in 3..Len(queries) :
           (Kinds[i] = "featured" /\ \A j \in 3..i : Kinds[j] # "children")
               => i = 3 /\ queries[i].param = homepage_nid

\* every page of the list under construction has had its fragment query:
\* the i-th page is the page of the i-th fragment query
PagesAfterTheirFragments ==
    /\ Len(pages) <= Len(FeaturedLog)
    /\ Len(FeaturedLog) <= Len(pages) + 1
    /\ \A i \in 1..Len(pages) : FeaturedLog[i].param = pages[i].nid

\* a step issues at most one query; a step that appends a page issues that
\* page's fragment query, and in the loop the page is the first of the rows
\* of the children query not yet done; the children query is issued once the
\* homepage is done and delivers its rows before any child's fragment query
OneQueryPerStep ==
    /\ Len(queries') <= Len(queries) + 1
    /\ SubSeq(queries', 1, Len(queries)) = queries
    /\ pages' # pages
           => /\ Len(queries') = Len(queries) + 1
              /\ queries'[Len(queries')] =
                     [q |-> "featured", param |-> pages'[Len(pages')].nid]
              /\ pages' = Append(pages, pages'[Len(pages')])
    /\ (pages' # pages /\ \E i \in 1..Len(queries) : queries[i].q = "children")
           => /\ content_pages # <<>>
              /\ pages'[Len(pages')].nid = Head(content_pages).nid
              /\ content_pages' = Tail(content_pages)
    /\ (Len(queries') > Len(queries) /\ queries'[Len(queries')].q = "children")
           => /\ content_pages = <<>>
              /\ Len(pages') = Len(pages)
              /\ \A i \in 1..Len(pages) : pages[i].nid = homepage_nid

\* C22: the queries of a call are issued one per step in the order menu
\* reference lookup, homepage projection, homepage fragment query, children
\* query, then one fragment query per child in the order of the rows the
\* children query returned; a page is appended only in the step in which
\* its own fragment query has completed.
C22_QueriesInSequence ==
    /\ [](LogInOrder /\ PagesAfterTheirFragments)
    /\ [][OneQueryPerStep]_vars

\* C22 witness: a finished call with homepage and two different child pages:
\* six queries in the order of the claim.
C22_Witness ==
    /\ ReturnedOk
    /\ Len(Returned) = 3
    /\ Returned[2].nid # Returned[3].nid
    /\ Kinds = <<"menu_uuid", "homepage", "featured", "children", "featured",
                 "featured">>
    /\ queries[3].param = 100
    /\ queries[5].param = Returned[2].nid
    /\ queries[6].param = Returned[3].nid

-----------------------------------------------------------------------------
(* Two calls of pages_for_club for different homepages, interleaved *)

\* The lists one call can return when it runs alone and no query fails: a
\* menu uuid the lookup can return, a row the homepage projection can
\* return, an order the children query can return, each page with its
\* fragment markup appended.
HomePage(st, row) ==
    LET page == FromPageRow(row)
    IN  [page EXCEPT !.body_html =
             AppendFeaturedHome(page.body_html, featured_pages_content(st, page.nid))]

ChildPage(st, row) ==
    LET page == FromPageRow(row)
    IN  [page EXCEPT !.body_html =
             AppendFeaturedChild(page.body_html, featured_pages_content(st, page.nid))]

HomeLists(st, nid) ==
    IF HomepageJoin(st, nid) = {} THEN {<<>>}
    ELSE {<<HomePage(st, ProjectRow(j))>> : j \in HomepageJoin(st, nid)}

ChildLists(st, nid) ==
    IF MenuUuids(st, nid) = {} THEN {<<>>}
    ELSE UNION {{[i \in 1..Len(rows) |-> ChildPage(st, rows[i])] :
                    rows \in ChildrenResults(st, ParentRef(u))} :
                u \in MenuUuids(st, nid)}

pages_for_club(st, nid) ==
    {h \o c : h \in HomeLists(st, nid), c \in ChildLists(st, nid)}

\* the frame of the call that is running: its argument, position and locals
Frame ==
    [homepage_nid  |-> homepage_nid,
     pc            |-> pc,
     homepage_uuid |-> homepage_uuid,
     homepage      |-> homepage,
     content_pages |-> content_pages,
     pages         |-> pages,
     built         |-> built,
     result        |-> result,
     queries       |-> queries]

\* the frame of a call that has not started
NewFrame(nid) ==
    [homepage_nid  |-> nid,
     pc            |-> "menu_uuid",
     homepage_uuid |-> None,
     homepage      |-> None,
     content_pages |-> <<>>,
     pages         |-> <<>>,
     built         |-> <<>>,
     result        |-> None,
     queries       |-> <<>>]

\* faulty variant: the list under construction is shared by the two calls
SwitchSharingPages ==
    /\ arg.pc # "done"
    /\ arg' = Frame
    /\ homepage_nid' = arg.homepage_nid
    /\ pc' = arg.pc
    /\ homepage_uuid' = arg.homepage_uuid
    /\ homepage' = arg.homepage
    /\ content_pages' = arg.content_pages
    /\ built' = arg.built
    /\ result' = arg.result
    /\ queries' = arg.queries
    /\ UNCHANGED <<store, pages, ret>>

\* Between two awaited queries the executor may suspend the running call and
\* resume the other one, which waits in `arg`; each call keeps its own
\* frame, the store is shared and not written.
Switch ==
    /\ arg.pc # "done"
    /\ arg' = Frame
    /\ homepage_nid' = arg.homepage_nid
    /\ pc' = arg.pc
    /\ homepage_uuid' = arg.homepage_uuid
    /\ homepage' = arg.homepage
    /\ content_pages' = arg.content_pages
    /\ pages' = arg.pages
    /\ built' = arg.built
    /\ result' = arg.result
    /\ queries' = arg.queries
    /\ UNCHANGED <<store, ret>>

\* Stores of SpecPair: those of Spec in which the homepage 100 exists and
\* has its enabled 'microsites' link; links 2 and 3 vary, so node 200 can be
\* a child of 100, a homepage with children of its own, both or neither.
PairStores ==
    {s \in MenuStores :
        /\ \E n \in s.nodes : n.nid = 100
        /\ \E l \in s.links : l.id = 1 /\ l.menu_name = "microsites" /\ l.enabled = 1
        /\ \E l \in s.links : l.id = 2 /\ l.enabled = 1}

\* pages_for_club(pool, 100) is running, pages_for_club(pool, 200) waits
InitPair ==
    /\ store \in PairStores
    /\ homepage_nid = 100
    /\ pc = "menu_uuid"
    /\ homepage_uuid = None
    /\ homepage = None
    /\ content_pages = <<>>
    /\ pages = <<>>
    /\ built = <<>>
    /\ result = None
    /\ queries = <<>>
    /\ arg = NewFrame(200)
    /\ ret = None

NextPair == Next \/ Switch

SpecPair == InitPair /\ [][NextPair]_vars

-----------------------------------------------------------------------------
(* Claims about interleaved calls, checked under SpecPair *)

\* the list a finished frame returned
ListOf(f) == Unwrap(f.result).pages

FinishedOk(f) == f.pc = "done" /\ IsSome(f.result) /\ Unwrap(f.result).ok

\* C23: however the steps of the two calls interleave and whichever ends
\* first, the list each call returns is a list that call can return when it
\* runs alone on the same store; no step writes the store, and no step of
\* the running call touches the frame of the waiting one.
C23_InterleavedCallsReturnSoloLists ==
    /\ [](/\ FinishedOk(Frame) => ListOf(Frame) \in pages_for_club(store, homepage_nid)
          /\ FinishedOk(arg) => ListOf(arg) \in pages_for_club(store, arg.homepage_nid))
    /\ [][/\ store' = store
          /\ arg' # arg => (arg' = Frame /\ Frame' = arg)]_vars

\* C23 witness: the call for 200 has ended first, with [200, 300], while the
\* call for 100 was suspended; the call for 100 has then ended with
\* [100, 200].
C23_Witness ==
    /\ FinishedOk(Frame)
    /\ FinishedOk(arg)
    /\ homepage_nid = 100
    /\ arg.homepage_nid = 200
    /\ Len(Returned) = 2
    /\ Returned[1].nid = 100
    /\ Returned[2].nid = 200
    /\ Len(ListOf(arg)) = 2
    /\ ListOf(arg)[1].nid = 200
    /\ ListOf(arg)[2].nid = 300

=============================================================================
